---- MODULE Spec2Model ----
(***************************************************************************)
(* A model of obspy/gse2/libgse2.py: the GSE2 / CM6 reader and writer.     *)
(*                                                                         *)
(* Text is modelled character by character: a string is a sequence of      *)
(* one-character strings, a file is one flat sequence of characters and    *)
(* the stream position is an offset into it.  Floating point values are    *)
(* decimal numbers m * 10^e, kept normalised, so that formatting to a      *)
(* fixed number of places loses exactly the digits that do not fit.        *)
(***************************************************************************)
EXTENDS Integers, Sequences, FiniteSets, TLC

(***************************************************************************)
(* Characters and Python string primitives                                 *)
(***************************************************************************)
DigitChars == <<"0", "1", "2", "3", "4", "5", "6", "7", "8", "9">>

LowerChars == <<"a", "b", "c", "d", "e", "f", "g", "h", "i", "j", "k", "l", "m",
                "n", "o", "p", "q", "r", "s", "t", "u", "v", "w", "x", "y", "z">>

UpperChars == <<"A", "B", "C", "D", "E", "F", "G", "H", "I", "J", "K", "L", "M",
                "N", "O", "P", "Q", "R", "S", "T", "U", "V", "W", "X", "Y", "Z">>

NL == "\n"

NUL == "\\0"

Whitespace == {" ", NL}

Range(s) == {s[i] : i \in 1..Len(s)}

IsDigit(c) == c \in Range(DigitChars)

DigitVal(c) == (CHOOSE i \in 1..10 : DigitChars[i] = c) - 1

Min(a, b) == IF a < b THEN a ELSE b

Max(a, b) == IF a > b THEN a ELSE b

Abs(x) == IF x < 0 THEN -x ELSE x

RECURSIVE Pow10(_)
Pow10(n) == IF n <= 0 THEN 1 ELSE 10 * Pow10(n - 1)

Repeat(c, n) == [i \in 1..n |-> c]

\* F applied to the value of x, which is computed once
Bind(x, F(_)) == CHOOSE r \in {F(v) : v \in {x}} : TRUE

\* a left fold of Op over s[lo..hi] from st, split in halves to keep the evaluation
\* shallow: Op(... Op(Op(st, s[lo]), s[lo + 1]) ..., s[hi])
RECURSIVE FoldSeq(_, _, _, _, _)
FoldSeq(Op(_, _), st, s, lo, hi) ==
    IF lo > hi THEN st
    ELSE IF lo = hi THEN Op(st, s[lo])
    ELSE Bind((lo + hi) \div 2,
              LAMBDA mid : Bind(FoldSeq(Op, st, s, lo, mid),
                                LAMBDA left : FoldSeq(Op, left, s, mid + 1, hi)))

\* s[a:b] of Python, for 0 <= a <= b
Slice(s, a, b) == SubSeq(s, a + 1, Min(b, Len(s)))

\* s.startswith(prefix)
StartsWith(s, prefix) == Len(s) >= Len(prefix) /\ SubSeq(s, 1, Len(prefix)) = prefix

\* s.lstrip()
LStrip(s) ==
    LET black == {i \in 1..Len(s) : s[i] \notin Whitespace}
    IN IF black = {} THEN <<>>
       ELSE SubSeq(s, CHOOSE i \in black : \A j \in black : i <= j, Len(s))

\* s.rstrip()
RStrip(s) ==
    LET black == {i \in 1..Len(s) : s[i] \notin Whitespace}
    IN IF black = {} THEN <<>>
       ELSE SubSeq(s, 1, CHOOSE i \in black : \A j \in black : i >= j)

\* s.strip()
Strip(s) == RStrip(LStrip(s))

UpperChar(c) ==
    IF c \in Range(LowerChars)
    THEN UpperChars[CHOOSE i \in 1..26 : LowerChars[i] = c]
    ELSE c

\* s.upper()
Upper(s) == [i \in 1..Len(s) |-> UpperChar(s[i])]

\* index of the first c in s, 0 when there is none
IndexOf(s, c) ==
    IF c \in Range(s) THEN CHOOSE i \in 1..Len(s) : s[i] = c /\ \A j \in 1..(i - 1) : s[j] # c
    ELSE 0

\* the first whitespace-separated word of s from position i on, and where it ends
WordEnd(s, i) ==
    LET white == {j \in i..Len(s) : s[j] \in Whitespace}
    IN IF white = {} THEN Len(s) + 1 ELSE CHOOSE j \in white : \A k \in white : j <= k

\* s.split()
RECURSIVE Split(_)
Split(s) ==
    Bind(LStrip(s),
         LAMBDA t :
            IF t = <<>> THEN <<>>
            ELSE Bind(WordEnd(t, 1),
                      LAMBDA e : <<SubSeq(t, 1, e - 1)>> \o Split(SubSeq(t, e, Len(t)))))

\* the decimal digits of a natural number
RECURSIVE Digits(_)
Digits(n) ==
    IF n < 10 THEN <<DigitChars[n + 1]>>
    ELSE Bind(n \div 10, Digits) \o <<DigitChars[(n % 10) + 1]>>

AddDigit(n, c) == 10 * n + DigitVal(c)

DigitsVal(s) == FoldSeq(AddDigit, 0, s, 1, Len(s))

AllDigits(s) == \A i \in 1..Len(s) : IsDigit(s[i])

PadLeft(s, width, c) == Repeat(c, width - Len(s)) \o s

PadRight(s, width) == s \o Repeat(" ", width - Len(s))

\* "%<width>d" % n, and "%0<width>d" % n with zero = TRUE
FormatD(n, width, zero) ==
    LET sign == IF n < 0 THEN <<"-">> ELSE <<>>
        body == Digits(Abs(n))
    IN IF zero THEN sign \o PadLeft(body, width - Len(sign), "0")
       ELSE PadLeft(sign \o body, width, " ")

\* "%-<width>s" % s
FormatS(s, width) == PadRight(s, width)

\* int(s): [ok, val]
ParseIntStripped(t) ==
    LET signed == t # <<>> /\ t[1] \in {"-", "+"}
        body == IF signed THEN Tail(t) ELSE t
    IN IF body # <<>> /\ AllDigits(body)
       THEN [ok |-> TRUE, val |-> IF signed /\ t[1] = "-" THEN -DigitsVal(body) ELSE DigitsVal(body)]
       ELSE [ok |-> FALSE, val |-> 0]

ParseInt(s) == Bind(Strip(s), ParseIntStripped)

(***************************************************************************)
(* Decimal floating point values m * 10^e, normalised: e <= 0, and m does  *)
(* not end in 0 unless e = 0.                                              *)
(***************************************************************************)
RECURSIVE NormVal(_)
NormVal(v) ==
    IF v.m = 0 THEN [m |-> 0, e |-> 0]
    ELSE IF v.e > 0 THEN Bind([m |-> v.m * 10, e |-> v.e - 1], NormVal)
    ELSE IF v.e < 0 /\ v.m % 10 = 0 THEN Bind([m |-> v.m \div 10, e |-> v.e + 1], NormVal)
    ELSE v

Norm(m, e) == Bind([m |-> m, e |-> e], NormVal)

Flt(m, e) == Norm(m, e)

\* |m| / 10^k rounded to the nearest integer, ties to even
RoundDiv(a, k) ==
    LET p == Pow10(k)
        q == a \div p
        r == a % p
    IN IF 2 * r > p \/ (2 * r = p /\ q % 2 = 1) THEN q + 1 ELSE q

\* "%<width>.<prec>f" % v, and "%0<width>.<prec>f" % v with zero = TRUE
FormatF(v, width, prec, zero) ==
    LET shift == v.e + prec
        scaled == IF shift >= 0 THEN Abs(v.m) * Pow10(shift) ELSE RoundDiv(Abs(v.m), -shift)
        sign == IF v.m < 0 THEN <<"-">> ELSE <<>>
        body == Digits(scaled \div Pow10(prec)) \o <<".">>
                  \o PadLeft(Digits(scaled % Pow10(prec)), prec, "0")
    IN IF zero THEN sign \o PadLeft(body, width - Len(sign), "0")
       ELSE PadLeft(sign \o body, width, " ")

\* "%10.2e" % v: three significant digits and a two-digit exponent
FormatE(v, width) ==
    LET a == Abs(v.m)
        nd == Len(Digits(a))
        m3 == IF nd > 3 THEN RoundDiv(a, nd - 3) ELSE a * Pow10(3 - nd)
        carry == m3 >= 1000
        mant == IF carry THEN 100 ELSE m3
        x == IF a = 0 THEN 0 ELSE nd - 1 + v.e + (IF carry THEN 1 ELSE 0)
        sign == IF v.m < 0 THEN <<"-">> ELSE <<>>
        body == <<DigitChars[(mant \div 100) + 1], ".">> \o PadLeft(Digits(mant % 100), 2, "0")
                  \o <<"e", IF x < 0 THEN "-" ELSE "+">> \o PadLeft(Digits(Abs(x)), 2, "0")
    IN PadLeft(sign \o body, width, " ")

\* float(s): [ok, val]
ParseFloatStripped(t) ==
    LET signed == t # <<>> /\ t[1] \in {"-", "+"}
        neg == signed /\ t[1] = "-"
        body == IF signed THEN Tail(t) ELSE t
        epos == IndexOf(body, "e")
        mant == IF epos = 0 THEN body ELSE SubSeq(body, 1, epos - 1)
        expo == IF epos = 0 THEN [ok |-> TRUE, val |-> 0]
                ELSE ParseInt(SubSeq(body, epos + 1, Len(body)))
        dpos == IndexOf(mant, ".")
        ip == IF dpos = 0 THEN mant ELSE SubSeq(mant, 1, dpos - 1)
        fp == IF dpos = 0 THEN <<>> ELSE SubSeq(mant, dpos + 1, Len(mant))
        m == DigitsVal(ip \o fp)
    IN IF expo.ok /\ AllDigits(ip) /\ AllDigits(fp) /\ ip \o fp # <<>>
          /\ (epos = 0 \/ SubSeq(body, epos + 1, Len(body)) = Strip(SubSeq(body, epos + 1, Len(body))))
       THEN [ok |-> TRUE, val |-> Norm(IF neg THEN -m ELSE m, expo.val - Len(fp))]
       ELSE [ok |-> FALSE, val |-> Norm(0, 0)]

ParseFloat(s) == Bind(Strip(s), ParseFloatStripped)

(***************************************************************************)
(* HeaderCodec: writeHeader and readHeader on one WID2 line                *)
(***************************************************************************)
WID2 == <<"W", "I", "D", "2">>

DAT2 == <<"D", "A", "T", "2">>

CM6 == <<"C", "M", "6">>

\* dict.setdefault(key, value)
SetDefault(d, key, value) == IF key \in DOMAIN d THEN d ELSE d @@ (key :> value)

\* the seconds without their fraction
SecondsWhole(date) == Flt(date.second, 0)

\* date.second + date.microsecond / 1e6
Seconds(date) == Flt(date.second * 1000000 + date.microsecond, -6)

\* the text writeHeader hands to f.write
writeHeader(headdict) ==
    LET calib == FormatE(headdict.calib, 10)
        date == headdict.starttime
    IN WID2 \o <<" ">> \o FormatD(date.year, 4, FALSE) \o <<"/">> \o FormatD(date.month, 2, TRUE)
         \o <<"/">> \o FormatD(date.day, 2, TRUE) \o <<" ">> \o FormatD(date.hour, 2, TRUE)
         \o <<":">> \o FormatD(date.minute, 2, TRUE) \o <<":">> \o FormatF(Seconds(date), 6, 3, TRUE)
         \o <<" ">> \o FormatS(headdict.station, 5) \o <<" ">> \o FormatS(headdict.channel, 3)
         \o <<" ">> \o FormatS(headdict.gse2.auxid, 4) \o <<" ">> \o FormatS(headdict.gse2.datatype, 3)
         \o <<" ">> \o FormatD(headdict.npts, 8, FALSE) \o <<" ">> \o FormatF(headdict.sampling_rate, 11, 6, FALSE)
         \o <<" ">> \o calib \o <<" ">> \o FormatF(headdict.gse2.calper, 7, 3, FALSE)
         \o <<" ">> \o FormatS(headdict.gse2.instype, 6) \o <<" ">> \o FormatF(headdict.gse2.hang, 5, 1, FALSE)
         \o <<" ">> \o FormatF(headdict.gse2.vang, 4, 1, FALSE) \o <<NL>>

\* UTCDateTime(**date): the fields must name a time of day on a calendar day
UTCDateTimeOk(date) ==
    /\ date.year \in 1..9999
    /\ date.month \in 1..12
    /\ date.day \in 1..31
    /\ date.hour \in 0..23
    /\ date.minute \in 0..59
    /\ date.second \in 0..59
    /\ date.microsecond \in 0..999999

\* the fixed columns of the starttime, as int() reads them
DateFields(line) ==
    [year |-> ParseInt(Slice(line, 5, 9)), month |-> ParseInt(Slice(line, 10, 12)),
     day |-> ParseInt(Slice(line, 13, 15)), hour |-> ParseInt(Slice(line, 16, 18)),
     minute |-> ParseInt(Slice(line, 19, 21)), second |-> ParseInt(Slice(line, 22, 24)),
     microsecond |-> ParseInt(Slice(line, 25, 28))]

\* the fixed columns of the numeric fields, as int() and float() read them
NumFields(line) ==
    [npts |-> ParseInt(Slice(line, 48, 56)), sampling_rate |-> ParseFloat(Slice(line, 57, 68)),
     calib |-> ParseFloat(Slice(line, 69, 79)), calper |-> ParseFloat(Slice(line, 80, 87)),
     hang |-> ParseFloat(Slice(line, 95, 100)), vang |-> ParseFloat(Slice(line, 101, 105))]

NoHeader == [npts |-> 0]

\* the part of readHeader after the WID2 line is found: [err, header]
ParsedHeader(line, d, n) ==
    LET date == [k \in DOMAIN d |-> IF k = "microsecond" THEN d[k].val * 1000 ELSE d[k].val]
    IN IF (\E k \in DOMAIN d : ~d[k].ok) \/ ~UTCDateTimeOk(date) \/ (\E k \in DOMAIN n : ~n[k].ok)
       THEN [err |-> "ValueError", header |-> NoHeader]
       ELSE [err |-> "none",
             header |-> [starttime |-> date,
                         station |-> Strip(Slice(line, 29, 34)),
                         channel |-> Upper(Strip(Slice(line, 35, 38))),
                         npts |-> n.npts.val,
                         sampling_rate |-> n.sampling_rate.val,
                         calib |-> n.calib.val,
                         gse2 |-> [auxid |-> Strip(Slice(line, 39, 43)),
                                   datatype |-> Strip(Slice(line, 44, 48)),
                                   calper |-> n.calper.val,
                                   instype |-> Strip(Slice(line, 88, 94)),
                                   hang |-> n.hang.val,
                                   vang |-> n.vang.val]]]

ParseHeader(line) ==
    Bind(DateFields(line), LAMBDA d : Bind(NumFields(line), LAMBDA n : ParsedHeader(line, d, n)))

(***************************************************************************)
(* The input stream: f.readline(), f.read(n), f.tell(), f.seek()           *)
(***************************************************************************)
\* the line f.readline() returns at offset p: up to and including the next newline
ReadLine(f, p) ==
    LET rest == SubSeq(f, p + 1, Len(f))
        nl == IndexOf(rest, NL)
    IN IF nl = 0 THEN rest ELSE SubSeq(rest, 1, nl)

\* f.read(n) at offset p
ReadBytes(f, p, n) == SubSeq(f, p + 1, Min(p + n, Len(f)))

\* the offset after skipping lines until one starts with prefix (that line consumed
\* too), or the end of input: [found, line, pos]
RECURSIVE FindLine(_, _, _)
FindLine(f, p, prefix) ==
    Bind(ReadLine(f, p),
         LAMBDA line :
            IF line = <<>> THEN [found |-> FALSE, line |-> line, pos |-> p]
            ELSE IF StartsWith(line, prefix)
            THEN [found |-> TRUE, line |-> line, pos |-> p + Len(line)]
            ELSE Bind(p + Len(line), LAMBDA q : FindLine(f, q, prefix)))

\* readHeader(fh) from offset p: [err, header, pos]
readHeader(f, p) ==
    Bind(FindLine(f, p, WID2),
         LAMBDA hit :
            IF ~hit.found THEN [err |-> "EOFError", header |-> NoHeader, pos |-> hit.pos]
            ELSE Bind(ParseHeader(hit.line),
                      LAMBDA parsed : [err |-> parsed.err, header |-> parsed.header, pos |-> hit.pos]))

\* a test evaluation: the header line of the documentation
ExampleHeader ==
    [starttime |-> [year |-> 2009, month |-> 5, day |-> 18, hour |-> 6, minute |-> 47,
                    second |-> 20, microsecond |-> 255000],
     station |-> <<"R", "N", "H", "A">>, channel |-> <<"E", "H", "N">>, npts |-> 750,
     sampling_rate |-> Flt(200, 0), calib |-> Flt(949, -4),
     gse2 |-> [auxid |-> <<>>, datatype |-> CM6, calper |-> Flt(1, 0),
               instype |-> <<"M", "2", "4">>, hang |-> Flt(-1, 0), vang |-> Flt(0, 0)]]

(***************************************************************************)
(* The compiled GSE2 library (gse_functions): check_sum, diff_2nd,         *)
(* rem_2nd_diff, compress_6b_buffer, decomp_6b_buffer.  The Python module  *)
(* only calls these; they are modelled from their documented contracts.    *)
(***************************************************************************)
ChecksumModulo == 100000000

\* C's remainder, truncating toward zero
Rem(x, m) == IF x >= 0 THEN x % m ELSE -((-x) % m)

\* check_sum(data, n, 0): the running signed sum of the samples, reduced modulo 10^8
\* one turn of the loop of check_sum
AddSample(checksum, sample) == Rem(checksum + Rem(sample, ChecksumModulo), ChecksumModulo)

check_sum(samples, checksum) == FoldSeq(AddSample, checksum, samples, 1, Len(samples))

\* one pass of first differences, in place
Diff1(x) == [i \in 1..Len(x) |-> IF i = 1 THEN x[1] ELSE x[i] - x[i - 1]]

\* diff_2nd(data, n, 0): d[i] = x[i] - 2 x[i-1] + x[i-2]
diff_2nd(x) == Diff1(Diff1(x))

Plus(a, b) == a + b

\* one pass of running sums, in place
Cumul(x) == [i \in 1..Len(x) |-> FoldSeq(Plus, 0, x, 1, i)]

\* rem_2nd_diff(data, n): the inverse of diff_2nd
rem_2nd_diff(x) == Cumul(Cumul(x))

\* the 64 characters of the 6-bit alphabet, in the order of their values 0..63
SixBitChars == <<"+", "-">> \o DigitChars \o UpperChars \o LowerChars

SixBitVal(c) == (CHOOSE i \in 1..64 : SixBitChars[i] = c) - 1

\* the largest magnitude the packer encodes; larger ones are clipped to it
MaxPacked == 134217727

RECURSIVE Pow32(_)
Pow32(n) == IF n <= 0 THEN 1 ELSE 32 * Pow32(n - 1)

\* the number of 6-bit groups of a magnitude: 4 bits in the first, 5 in each further one
RECURSIVE GroupCount(_, _)
GroupCount(mag, k) == IF mag < 16 * Pow32(k - 1) THEN k ELSE GroupCount(mag, k + 1)

\* the characters of one value, most significant group first; every group but the
\* last carries the continuation flag 32, the first the sign flag 16
PackValue(v) ==
    LET mag == Min(Abs(v), MaxPacked)
        k == GroupCount(mag, 1)
        group(j) == (mag \div Pow32(k - j)) % (IF j = 1 THEN 16 ELSE 32)
        flags(j) == (IF j < k THEN 32 ELSE 0) + (IF j = 1 /\ v < 0 THEN 16 ELSE 0)
    IN [j \in 1..k |-> SixBitChars[group(j) + flags(j) + 1]]

\* compress_6b_buffer(data, n, writer): the characters handed to writer, one per call
PackNext(chars, v) == chars \o PackValue(v)

PackAll(x) == FoldSeq(PackNext, <<>>, x, 1, Len(x))

\* the value the unpacker is building, between two characters
NoValue == [open |-> FALSE, neg |-> FALSE, mag |-> 0]

\* the unpacker on one character: st holds the values recovered so far (vals), the
\* value under construction (cur), how many values are asked for (n) and whether the
\* end of the C string in the working buffer was met (eol)
UnpackChar(st, c) ==
    IF st.eol \/ Len(st.vals) >= st.n THEN st
    ELSE IF c \in {NL, NUL} THEN [st EXCEPT !.eol = TRUE]
    ELSE IF c \notin Range(SixBitChars) THEN st
    ELSE LET g == SixBitVal(c)
             neg == IF st.cur.open THEN st.cur.neg ELSE (g % 32) >= 16
             mag == IF st.cur.open THEN st.cur.mag * 32 + (g % 32) ELSE g % 16
         IN IF g >= 32
            THEN [st EXCEPT !.cur = [open |-> TRUE, neg |-> neg, mag |-> Min(mag, MaxPacked)]]
            ELSE [st EXCEPT !.vals = Append(st.vals, IF neg THEN -mag ELSE mag), !.cur = NoValue]

\* the unpacker fed the characters of one buffered line, stopping at the end of the
\* C string or once n values are recovered
UnpackLine(chars, vals, cur, n) ==
    FoldSeq(UnpackChar, [vals |-> vals, cur |-> cur, n |-> n, eol |-> FALSE], chars, 1, Len(chars))

(***************************************************************************)
(* State                                                                   *)
(***************************************************************************)
VARIABLES
    file,       \* the characters of the stream the reading operations are given
    pos,        \* its position, f.tell()
    pc,         \* where the reading side is: "start", "idle", "sniffed", "decomp", "crashed"
    op,         \* the operation called last
    pos0,       \* the position when that operation was entered
    widi,       \* isGse2: the four bytes read
    err,        \* the exception the last operation raised, "none" when it returned
    warned,     \* the warnings the last operation emitted
    header,     \* the header readHeader returned last
    data,       \* the samples uncompress_CM6 decoded last
    want,       \* n_samps of the running or last uncompress_CM6
    unp,        \* decomp_6b_buffer between two read83 callbacks
    copied,     \* read83: the bytes its last memmove copied into cbuf
    sbsize,     \* read83: the size of the string buffer sb it copied from
    chk,        \* verifyChecksum: the two checksums it compared last
    verify_chksum, \* read: its verify_chksum argument
    calls,      \* the library routines the last reading operation invoked
    headdict,   \* the header handed to writeHeader
    w,          \* the calls of write, one record per caller
    count       \* the module-level counter of libgse2.py

vars == <<file, pos, pc, op, pos0, widi, err, warned, header, data, want, unp, copied,
          sbsize, chk, verify_chksum, calls, headdict, w, count>>

readVars == <<file, pos, pc, op, pos0, widi, err, warned, header, data, want, unp, copied,
              sbsize, chk, verify_chksum, calls>>

(***************************************************************************)
(* verifyChecksum                                                          *)
(***************************************************************************)
\* 'CHK%d' % version
CHK_LINE(version) == <<"C", "H", "K">> \o Digits(version)

\* a comparison that does not tolerate a checksum of the opposite sign
ChecksumVerdictStrict(chksum_data, chksum_file) ==
    IF chksum_data # chksum_file THEN "raise" ELSE "ok"

\* the branch verifyChecksum takes on the two checksums: "ok", "warn" or "raise"
ChecksumVerdict(chksum_data, chksum_file) ==
    IF chksum_data # chksum_file
    THEN IF Abs(chksum_data) = Abs(chksum_file) THEN "warn" ELSE "raise"
    ELSE "ok"

\* the comparison of verifyChecksum, given the checksum of the data, the line the
\* scan stopped at (hit) and the words of that line
ComparedChecksums(chksum_data, hit, words, version) ==
    LET num == IF Len(words) >= 2 THEN ParseInt(words[2]) ELSE [ok |-> FALSE, val |-> 0]
        chksum_file == IF hit.found THEN num.val ELSE 0
        verdict == ChecksumVerdict(chksum_data, chksum_file)
        both == [computed |-> chksum_data, infile |-> chksum_file, version |-> version]
    IN IF hit.found /\ Len(words) < 2
       THEN [err |-> "IndexError", warned |-> 0, pos |-> hit.pos, chk |-> both]
       ELSE IF hit.found /\ ~num.ok
       THEN [err |-> "ValueError", warned |-> 0, pos |-> hit.pos, chk |-> both]
       ELSE [err |-> IF verdict = "raise" THEN "ChksumError" ELSE "none",
             warned |-> IF verdict = "warn" THEN 1 ELSE 0,
             pos |-> hit.pos, chk |-> both]

\* verifyChecksum(fh, data, version) from offset p: [err, warned, pos, chk]
verifyChecksum(f, p, samples, version) ==
    Bind(check_sum(samples, 0),
         LAMBDA chksum_data :
            Bind(FindLine(f, p, CHK_LINE(version)),
                 LAMBDA hit : Bind(Split(Strip(hit.line)),
                                   LAMBDA words : ComparedChecksums(chksum_data, hit, words, version))))

(***************************************************************************)
(* uncompress_CM6 and its callback read83                                  *)
(***************************************************************************)
\* line[:82]
ClipLen == 82

\* the working buffer of decomp_6b_buffer that read83 copies into
CBufSize == 83

NoUnpack == [sawDat |-> FALSE, vals |-> <<>>, cur |-> NoValue, eof |-> FALSE]

NoChk == [computed |-> 0, infile |-> 0, version |-> 0]

\* the number of bytes read83 hands to memmove
CopyLen(line) == Len(line) + 1

\* what decomp_6b_buffer does with the line read83 left in cbuf, up to its next
\* callback or its return: [ret, unp], ret = -2 while it goes on
DecompStep(cbuf, st, n) ==
    IF ~st.sawDat
    THEN [ret |-> -2, unp |-> [st EXCEPT !.sawDat = StartsWith(cbuf, DAT2)]]
    ELSE IF StartsWith(cbuf, CHK_LINE(2)) THEN [ret |-> Len(st.vals), unp |-> st]
    ELSE Bind(UnpackLine(cbuf, st.vals, st.cur, n),
              LAMBDA r : [ret |-> IF Len(r.vals) >= n THEN Len(r.vals) ELSE -2,
                          unp |-> [st EXCEPT !.vals = r.vals, !.cur = r.cur]])

\* what decomp_6b_buffer returns when read83 returns None
DecompEof(st) == IF st.sawDat THEN Len(st.vals) ELSE -1

\* a test that objects only to too many values
LengthMismatchAbove(n, n_samps) == n > n_samps

\* n != n_samps: the test of uncompress_CM6 on the count decomp_6b_buffer returned
LengthMismatch(n, n_samps) == n # n_samps

\* raise GSEUtiError("Mismatching length in lib.decomp_6b")
MismatchError == "GSEUtiError"

(***************************************************************************)
(* The reading operations                                                  *)
(***************************************************************************)
\* isGse2, first half: pos = f.tell(); widi = f.read(4)
IsGse2Read ==
    /\ pc = "idle"
    /\ op' = "isGse2"
    /\ pos0' = pos
    /\ widi' = ReadBytes(file, pos, 4)
    /\ pos' = pos + Len(ReadBytes(file, pos, 4))
    /\ pc' = "sniffed"
    /\ UNCHANGED <<file, err, warned, header, data, want, unp, copied, sbsize, chk,
                   verify_chksum, calls, headdict, w, count>>

\* a seek to the start of the stream
SeekTargetStart(entry) == 0

\* f.seek(pos) in isGse2: where the stream is put, given where isGse2 found it
SeekTarget(entry) == entry

\* isGse2, second half: f.seek(pos); raise TypeError unless widi is 'WID2'
IsGse2Seek ==
    /\ pc = "sniffed"
    /\ pos' = SeekTarget(pos0)
    /\ err' = IF widi # WID2 THEN "TypeError" ELSE "none"
    /\ warned' = 0
    /\ calls' = {}
    /\ pc' = "idle"
    /\ UNCHANGED <<file, op, pos0, widi, header, data, want, unp, copied, sbsize, chk,
                   verify_chksum, headdict, w, count>>

\* readHeader(fh)
ReadHeaderOp ==
    /\ pc = "idle"
    /\ \E r \in {readHeader(file, pos)} :
          /\ op' = "readHeader"
          /\ pos0' = pos
          /\ pos' = r.pos
          /\ err' = r.err
          /\ header' = r.header
    /\ warned' = 0
    /\ calls' = {}
    /\ UNCHANGED <<file, pc, widi, data, want, unp, copied, sbsize, chk, verify_chksum,
                   headdict, w, count>>

\* verifyChecksum(fh, data, version) on the samples decoded last
VerifyChecksumOp(version) ==
    /\ pc = "idle"
    /\ \E v \in {verifyChecksum(file, pos, data, version)} :
          /\ op' = "verifyChecksum"
          /\ pos0' = pos
          /\ pos' = v.pos
          /\ err' = v.err
          /\ warned' = v.warned
          /\ chk' = v.chk
    /\ calls' = {"check_sum"}
    /\ UNCHANGED <<file, pc, widi, header, data, want, unp, copied, sbsize, verify_chksum,
                   headdict, w, count>>

\* the end of uncompress_CM6 once decomp_6b_buffer has returned n with the stream at
\* p, and, inside read, the verifyChecksum that follows it
FinishUncompress(n, st, p) ==
    \E bad \in {LengthMismatch(n, want)} :
    \E samples \in {IF bad THEN data ELSE rem_2nd_diff(st.vals)} :
    \E doVerify \in {op = "read" /\ verify_chksum /\ ~bad} :
    \E v \in {IF doVerify THEN verifyChecksum(file, p, samples, 2)
              ELSE [err |-> "none", warned |-> 0, pos |-> p, chk |-> chk]} :
       /\ pc' = "idle"
       /\ unp' = st
       /\ data' = samples
       /\ err' = IF bad THEN MismatchError ELSE v.err
       /\ warned' = v.warned
       /\ pos' = v.pos
       /\ chk' = v.chk
       /\ calls' = calls \cup (IF bad THEN {} ELSE {"rem_2nd_diff"})
                         \cup (IF doVerify THEN {"check_sum"} ELSE {})

\* uncompress_CM6(f, n_samps), up to the first callback
UncompressCall(n_samps) ==
    /\ pc = "idle"
    /\ op' = "uncompress_CM6"
    /\ pos0' = pos
    /\ want' = n_samps
    /\ data' = <<>>
    /\ err' = "none"
    /\ warned' = 0
    /\ unp' = NoUnpack
    /\ IF n_samps = 0
       THEN pc' = "idle" /\ calls' = {}
       ELSE pc' = "decomp" /\ calls' = {"decomp_6b_buffer"}
    /\ UNCHANGED <<file, pos, widi, header, copied, sbsize, chk, verify_chksum,
                   headdict, w, count>>

\* one callback read83(cbuf, vptr) and what decomp_6b_buffer does with the line
Read83 ==
    /\ pc = "decomp"
    /\ \E line \in {ReadLine(file, pos)} :
          IF line = <<>>
          THEN /\ FinishUncompress(DecompEof(unp), [unp EXCEPT !.eof = TRUE], pos)
               /\ UNCHANGED <<copied, sbsize>>
          ELSE /\ copied' = CopyLen(line)
               /\ sbsize' = Len(Slice(line, 0, ClipLen)) + 1
               /\ \/ \E r \in {DecompStep(Slice(line, 0, ClipLen), unp, want)} :
                        IF r.ret = -2
                        THEN /\ unp' = r.unp
                             /\ pos' = pos + Len(line)
                             /\ UNCHANGED <<pc, data, err, warned, chk, calls>>
                        ELSE FinishUncompress(r.ret, r.unp, pos + Len(line))
                  \* memmove past the end of cbuf: the process may as well die
                  \/ /\ CopyLen(line) > CBufSize
                     /\ pc' = "crashed"
                     /\ pos' = pos + Len(line)
                     /\ UNCHANGED <<unp, data, err, warned, chk, calls>>
    /\ UNCHANGED <<file, op, pos0, widi, header, want, verify_chksum, headdict, w, count>>

\* read(f, verify_chksum), up to the first callback of its uncompress_CM6
ReadCall(verify) ==
    /\ pc = "idle"
    /\ \E r \in {readHeader(file, pos)} :
       \E n \in {r.header.npts} :
       \E v \in {IF r.err = "none" /\ n = 0 /\ verify THEN verifyChecksum(file, r.pos, <<>>, 2)
                 ELSE [err |-> "none", warned |-> 0, pos |-> r.pos, chk |-> chk]} :
          /\ op' = "read"
          /\ verify_chksum' = verify
          /\ pos0' = pos
          /\ header' = r.header
          /\ data' = <<>>
          /\ unp' = NoUnpack
          /\ IF r.err # "none" \/ n < 0
             THEN /\ err' = IF r.err # "none" THEN r.err ELSE "ValueError"
                  /\ pos' = r.pos
                  /\ warned' = 0
                  /\ calls' = {}
                  /\ UNCHANGED <<pc, want, chk>>
             ELSE IF n = 0
             THEN /\ want' = 0
                  /\ err' = v.err
                  /\ warned' = v.warned
                  /\ pos' = v.pos
                  /\ chk' = v.chk
                  /\ calls' = IF verify THEN {"check_sum"} ELSE {}
                  /\ UNCHANGED pc
             ELSE /\ want' = n
                  /\ pc' = "decomp"
                  /\ err' = "none"
                  /\ warned' = 0
                  /\ pos' = r.pos
                  /\ calls' = {"decomp_6b_buffer"}
                  /\ UNCHANGED chk
    /\ UNCHANGED <<file, widi, copied, sbsize, headdict, w, count>>

(***************************************************************************)
(* Inputs: sample buffers and files                                        *)
(***************************************************************************)
\* the longest of the short sample buffers
MaxShort == 2

\* 80-character lines: (count // 80 + 1) * 80 and '|S80'
LineWidth == 80

\* 4 character bytes per 32 bit integer
BytesPerSample == 4

\* 2 ** 26
MaxValue == 67108864

\* sample buffers by the shape of their second differences: "d5", "d20" and "d20000"
\* have every second difference equal to 5, 20 and 20000 (1, 2 and 4 characters a
\* sample); "alt" swings between -2^24 and 2^24 (6 characters a sample); "over",
\* "edge" and "under" are "d5" with one sample of 2^26 + 1, 2^26 and -2^27
Shape(n, kind) ==
    [i \in 1..n |->
        CASE kind = "d5" -> 5 * ((i * (i + 1)) \div 2)
          [] kind = "d20" -> 20 * ((i * (i + 1)) \div 2)
          [] kind = "d20000" -> 20000 * ((i * (i + 1)) \div 2)
          [] kind = "alt" -> IF i % 2 = 1 THEN -16777216 ELSE 16777216
          [] kind = "over" -> IF i = 1 THEN MaxValue + 1 ELSE 5 * ((i * (i + 1)) \div 2)
          [] kind = "edge" -> IF i = 1 THEN MaxValue ELSE 5 * ((i * (i + 1)) \div 2)
          [] kind = "under" -> IF i = 1 THEN -2 * MaxValue ELSE 5 * ((i * (i + 1)) \div 2)]

\* text cut into lines of at most LineWidth characters, each ended by a newline
Frame(chars) ==
    LET lines == (Len(chars) + LineWidth - 1) \div LineWidth
        at(j) == ((j - 1) \div (LineWidth + 1)) * LineWidth + ((j - 1) % (LineWidth + 1)) + 1
    IN [j \in 1..(Len(chars) + lines) |->
          IF j = Len(chars) + lines \/ (j - 1) % (LineWidth + 1) = LineWidth THEN NL
          ELSE chars[at(j)]]

\* a line of n characters, the newline included, that no operation looks for
Junk(n) == IF n = 0 THEN <<>> ELSE Repeat("#", n - 1) \o <<NL>>

\* the trailer line in its variants
Trailer(kind, samples) ==
    LET sum == check_sum(samples, 0)
        line(v) == CHK_LINE(2) \o <<" ">> \o FormatD(v, 8, FALSE) \o <<NL, NL>>
    IN CASE kind = "same" -> line(sum)
         [] kind = "negated" -> line(-sum)
         [] kind = "other" -> line(9999)
         [] kind = "bare" -> CHK_LINE(2) \o <<NL>>
         [] kind = "none" -> <<>>

\* the sample buffers the files hold
FileSamples ==
    {Shape(n, kind) : n \in 0..MaxShort, kind \in {"d5", "alt"}}
      \cup {Shape(LineWidth \div BytesPerSample, "alt")}

\* how many characters past the clip length the longest line of a file is
MaxExcess == 2

\* the files the reading operations are given: a header line announcing npts
\* samples, a DAT2 line, the packed samples and a trailer, with lines of other
\* content before the header and before the DAT2 line
GseFile(lead, npts, mid, samples, trailer) ==
    Junk(lead) \o writeHeader([ExampleHeader EXCEPT !.npts = npts]) \o Junk(mid)
      \o DAT2 \o <<NL>> \o Frame(PackAll(diff_2nd(samples))) \o Trailer(trailer, samples)

\* files that differ in their trailer, files that announce one sample more than they
\* hold, files with a long line before the DAT2 line, and a file that does not
\* start with its header
Files ==
    {GseFile(0, Len(samples), 0, samples, trailer) :
        samples \in FileSamples, trailer \in {"same", "negated", "other", "bare", "none"}}
      \cup {GseFile(0, Len(samples) + 1, 0, samples, trailer) :
               samples \in FileSamples, trailer \in {"same", "none"}}
      \cup {GseFile(0, MaxShort, mid, Shape(MaxShort, "d5"), "same") :
               mid \in ClipLen..(ClipLen + MaxExcess)}
      \cup {GseFile(6, MaxShort, 0, Shape(MaxShort, "d5"), "same")}

\* the most samples uncompress_CM6 is asked for directly
MaxNpts == 2

\* no call of write
NoWrite == [pc |-> "off"]

Procs == {1, 2}

(***************************************************************************)
(* The reading side as a state machine                                     *)
(***************************************************************************)
InitReadVars ==
    /\ pos = 0
    /\ op = "none"
    /\ pos0 = 0
    /\ widi = <<>>
    /\ err = "none"
    /\ warned = 0
    /\ header = NoHeader
    /\ data = <<>>
    /\ want = 0
    /\ unp = NoUnpack
    /\ copied = 0
    /\ sbsize = 0
    /\ chk = NoChk
    /\ verify_chksum = FALSE
    /\ calls = {}

InitRead ==
    /\ file \in Files
    /\ pc = "idle"
    /\ InitReadVars
    /\ headdict = ExampleHeader
    /\ w = [p \in Procs |-> NoWrite]
    /\ count = 0

NextRead ==
    \/ IsGse2Read
    \/ IsGse2Seek
    \/ ReadHeaderOp
    \/ \E version \in {1, 2} : VerifyChecksumOp(version)
    \/ \E n_samps \in 0..MaxNpts : UncompressCall(n_samps)
    \/ Read83
    \/ \E verify \in BOOLEAN : ReadCall(verify)

SpecRead == InitRead /\ [][NextRead]_vars

(***************************************************************************)
(* write                                                                   *)
(***************************************************************************)
\* data.max() of a non-empty array
RECURSIVE MaxOf(_, _)
MaxOf(x, i) == IF i = 1 THEN x[1] ELSE Bind(MaxOf(x, i - 1), LAMBDA m : Max(m, x[i]))

\* data.max() > 2 ** 26: the test that raises OverflowError
TooLarge(x) == MaxOf(x, Len(x)) > MaxValue

\* the transform and the packer always on the caller's own array
WorkBufferShared(inplace) == "caller"

\* the buffer the transform and the packer work on: the caller's own array when
\* inplace, else the array data.copy() made
WorkBuffer(inplace) == IF inplace THEN "caller" ELSE "copy"

\* np.zeros(n * 4, dtype='c')
Zeros(n) == Repeat(NUL, n * BytesPerSample)

\* the value of an '|S80' item: trailing zero bytes do not belong to it
StripNul(s) ==
    LET used == {i \in 1..Len(s) : s[i] # NUL}
    IN IF used = {} THEN <<>> ELSE SubSeq(s, 1, CHOOSE i \in used : \A j \in used : i >= j)

\* a slice of just the lines the characters fill or begin
SliceLenCeil(carr, cnt) == Min(((cnt + LineWidth - 1) \div LineWidth) * LineWidth, Len(carr))

\* how many characters carr[:(count // 80 + 1) * 80] holds: a slice ends with the array
SliceLen(carr, cnt) == Min(((cnt \div LineWidth) + 1) * LineWidth, Len(carr))

\* carr[:(count // 80 + 1) * 80].view('|S80'): [err, lines]; the view exists only
\* when the slice divides into 80-character items
DataLines(carr, cnt) ==
    IF SliceLen(carr, cnt) % LineWidth # 0 THEN [err |-> "ValueError", lines |-> <<>>]
    ELSE [err |-> "none",
          lines |-> [k \in 1..(SliceLen(carr, cnt) \div LineWidth) |->
                        StripNul(SubSeq(carr, LineWidth * (k - 1) + 1, LineWidth * k))]]

\* "CHK2 %8ld\n\n" % chksum
ChkText(chksum) == CHK_LINE(2) \o <<" ">> \o FormatD(chksum, 8, FALSE) \o <<NL, NL>>

\* the setdefault calls of write on headdict
WithDefaults(hd) ==
    LET h1 == SetDefault(hd, "calib", Flt(1, 0))
        h2 == SetDefault(h1, "gse2", <<>>)
        g1 == SetDefault(h2.gse2, "auxid", <<>>)
        g2 == SetDefault(g1, "datatype", CM6)
        g3 == SetDefault(g2, "calper", Flt(1, 0))
        g4 == SetDefault(g3, "instype", <<>>)
        g5 == SetDefault(g4, "hang", Flt(-1, 0))
        g6 == SetDefault(g5, "vang", Flt(-1, 0))
    IN [k \in DOMAIN h2 |-> IF k = "gse2" THEN g6 ELSE h2[k]]

\* write(headdict, data, f, inplace), up to the call of compress_6b_buffer
WriteCall(p) ==
    /\ w[p].pc = "idle"
    /\ \E x \in {w[p].caller} :
       \E ref \in {WorkBuffer(w[p].inplace)} :
       \E d \in {IF x = <<>> \/ TooLarge(x) THEN x ELSE diff_2nd(x)} :
          IF x = <<>>
          THEN \* max() of an empty array
               /\ w' = [w EXCEPT ![p].pc = "done", ![p].err = "ValueError", ![p].ref = ref,
                                 ![p].chksum = check_sum(x, 0), ![p].calls = {"check_sum"}]
               /\ UNCHANGED count
          ELSE IF TooLarge(x)
          THEN /\ w' = [w EXCEPT ![p].pc = "done", ![p].err = "OverflowError", ![p].ref = ref,
                                 ![p].copy = IF ref = "copy" THEN x ELSE <<>>,
                                 ![p].chksum = check_sum(x, 0), ![p].calls = {"check_sum"}]
               /\ UNCHANGED count
          ELSE /\ w' = [w EXCEPT ![p].pc = "compress", ![p].ref = ref,
                                 ![p].caller = IF ref = "caller" THEN d ELSE x,
                                 ![p].copy = IF ref = "copy" THEN d ELSE <<>>,
                                 ![p].chksum = check_sum(x, 0),
                                 ![p].carr = Zeros(Len(x)),
                                 ![p].todo = PackAll(d),
                                 ![p].calls = {"check_sum", "diff_2nd", "compress_6b_buffer"}]
               /\ count' = 0
    /\ UNCHANGED <<readVars, headdict>>

\* one callback writer(char); an IndexError in it is printed and dropped by ctypes
Writer(p) ==
    /\ w[p].pc = "compress"
    /\ w[p].todo # <<>>
    /\ IF count < Len(w[p].carr)
       THEN /\ w' = [w EXCEPT ![p].carr[count + 1] = Head(w[p].todo),
                              ![p].todo = Tail(w[p].todo),
                              ![p].emitted = w[p].emitted + 1]
            /\ count' = count + 1
       ELSE /\ w' = [w EXCEPT ![p].todo = Tail(w[p].todo), ![p].emitted = w[p].emitted + 1]
            /\ UNCHANGED count
    /\ UNCHANGED <<readVars, headdict>>

\* write after compress_6b_buffer has returned: the header, DAT2, the data lines, CHK2
WriteFinish(p) ==
    /\ w[p].pc = "compress"
    /\ w[p].todo = <<>>
    /\ \E hd \in {WithDefaults(w[p].headdict)} :
       \E block \in {DataLines(w[p].carr, count)} :
          w' = [w EXCEPT ![p].pc = "done",
                         ![p].headdict = hd,
                         ![p].err = block.err,
                         ![p].out = <<writeHeader(hd), DAT2 \o <<NL>>>>
                                      \o [k \in 1..Len(block.lines) |-> block.lines[k] \o <<NL>>]
                                      \o (IF block.err = "none" THEN <<ChkText(w[p].chksum)>> ELSE <<>>)]
    /\ UNCHANGED <<readVars, headdict, count>>

\* a header with only the entries write requires
MinimalHeader ==
    [starttime |-> ExampleHeader.starttime, station |-> ExampleHeader.station,
     channel |-> ExampleHeader.channel, npts |-> 0, sampling_rate |-> ExampleHeader.sampling_rate]

\* a call of write that has not begun
NewWrite(hd, samples, inplace) ==
    [pc |-> "idle", headdict |-> hd, caller |-> samples, orig |-> samples, inplace |-> inplace,
     ref |-> "caller", copy |-> <<>>, chksum |-> 0, carr |-> <<>>, todo |-> <<>>, emitted |-> 0,
     out |-> <<>>, err |-> "none", calls |-> {}]

\* the lengths of the sample buffers written: short ones, and ones that fill one and
\* two lines of the character buffer
WriteLens == (0..MaxShort) \cup {LineWidth \div BytesPerSample, 2 * (LineWidth \div BytesPerSample)}

WriteInputs ==
    {NewWrite(hd, Shape(n, kind), inplace) :
        hd \in {ExampleHeader, MinimalHeader}, n \in WriteLens,
        kind \in {"d5", "d20", "d20000", "alt", "over", "edge", "under"},
        inplace \in BOOLEAN}

InitReadIdle ==
    /\ file = <<>>
    /\ pc = "off"
    /\ InitReadVars
    /\ headdict = ExampleHeader

\* one call of write
InitWrite ==
    /\ InitReadIdle
    /\ \E call \in WriteInputs : w = [p \in Procs |-> IF p = 1 THEN call ELSE NoWrite]
    /\ count = 0

NextWrite ==
    \/ WriteCall(1)
    \/ Writer(1)
    \/ WriteFinish(1)

SpecWrite == InitWrite /\ [][NextWrite]_vars

\* two calls of write whose callbacks interleave; at most one of them has a long buffer
ConcInputs ==
    {NewWrite(ExampleHeader, Shape(n, "d5"), FALSE) :
        n \in (1..MaxShort) \cup {LineWidth \div BytesPerSample}}

InitConc ==
    /\ InitReadIdle
    /\ \E a \in ConcInputs : \E b \in ConcInputs :
          /\ Len(a.caller) <= MaxShort \/ Len(b.caller) <= MaxShort
          /\ w = [p \in Procs |-> IF p = 1 THEN a ELSE b]
    /\ count = 0

NextConc == \E p \in Procs : WriteCall(p) \/ Writer(p) \/ WriteFinish(p)

SpecConc == InitConc /\ [][NextConc]_vars

(***************************************************************************)
(* writeHeader followed by readHeader                                      *)
(***************************************************************************)
\* the headers written: the documented one varied field by field, with values that
\* fit their columns and values that do not
Headers ==
    {[ExampleHeader EXCEPT !.starttime.second = sec, !.starttime.microsecond = us,
                           !.station = sta, !.channel = cha, !.npts = n,
                           !.sampling_rate = rate, !.calib = cal, !.gse2.hang = hang] :
        sec \in {20, 59}, us \in {0, 255000, 255123, 999600},
        sta \in {<<"R", "N", "H", "A">>, <<"A", "B">>, <<"S", "T", "A", "T", "I", "O", "N">>},
        cha \in {<<"E", "H", "N">>, <<"e", "h", "z">>},
        n \in {0, 750, 99999999, 123456789},
        rate \in {Flt(200, 0), Flt(1234567, -7)},
        cal \in {Flt(949, -4), Flt(123456, -5)},
        hang \in {Flt(-1, 0), Flt(1234, -2)}}

InitHeader ==
    /\ file = <<>>
    /\ pc = "start"
    /\ InitReadVars
    /\ headdict \in Headers
    /\ w = [p \in Procs |-> NoWrite]
    /\ count = 0

\* writeHeader(f, headdict) on an empty file, which is then opened for reading
WriteHeaderOp ==
    /\ pc = "start"
    /\ file' = file \o writeHeader(headdict)
    /\ pc' = "idle"
    /\ op' = "writeHeader"
    /\ UNCHANGED <<pos, pos0, widi, err, warned, header, data, want, unp, copied, sbsize, chk,
                   verify_chksum, calls, headdict, w, count>>

NextHeader ==
    \/ WriteHeaderOp
    \/ ReadHeaderOp

SpecHeader == InitHeader /\ [][NextHeader]_vars

(***************************************************************************)
(* Properties                                                              *)
(***************************************************************************)
\* the offsets at which a line of f starts
LineStarts(f) == {0} \cup {i \in 1..(Len(f) - 1) : f[i] = NL}

\* the integer after the first line at or after offset p that starts with
\* 'CHK<version>'; 0 when there is no such line
ChkInFile(f, p, version) ==
    LET starts == {o \in LineStarts(f) :
                     o >= p /\ StartsWith(Slice(f, o, o + Len(CHK_LINE(version))), CHK_LINE(version))}
        first == CHOOSE o \in starts : \A q \in starts : o <= q
    IN IF starts = {} THEN 0 ELSE ParseInt(Split(Strip(ReadLine(f, first)))[2]).val

\* verifyChecksum has returned or raised on a trailer it could read
Verified == op = "verifyChecksum" /\ pc = "idle" /\ err \notin {"IndexError", "ValueError"}

\* C1: verifyChecksum compares the checksum of data with the integer after the first
\* CHK<version> line at or after the position it starts from (0 when there is none):
\* equal values give no error and no warning, values that differ only in sign give
\* no error and exactly one warning, anything else gives ChksumError, which carries
\* both values.
C1_ThreeOutcomes ==
    Verified =>
        \A c \in {check_sum(data, 0)} : \A f \in {ChkInFile(file, pos0, chk.version)} :
            /\ chk.computed = c /\ chk.infile = f
            /\ c = f => err = "none" /\ warned = 0
            /\ (c # f /\ Abs(c) = Abs(f)) => err = "none" /\ warned = 1
            /\ Abs(c) # Abs(f) => err = "ChksumError" /\ warned = 0

\* C1 witness: a trailer holding the negated checksum of the data was accepted with
\* one warning
C1_Witness ==
    Verified /\ chk.computed # 0 /\ chk.infile = -chk.computed /\ warned = 1 /\ err = "none"

\* the largest absolute value in a non-empty buffer
MaxAbs(x) == CHOOSE m \in {Abs(x[i]) : i \in 1..Len(x)} : \A i \in 1..Len(x) : m >= Abs(x[i])

\* C2 as stated: a call of write on a buffer whose largest absolute sample exceeds
\* 2^26 does not get past the range test: it ends with OverflowError, nothing written.
C2_RejectsMagnitude ==
    (w[1].pc \in {"compress", "done"} /\ w[1].orig # <<>> /\ MaxAbs(w[1].orig) > MaxValue)
        => (w[1].pc = "done" /\ w[1].err = "OverflowError" /\ w[1].out = <<>>)

\* uncompress_CM6, alone or inside read, has come to its end
Decoded == op \in {"uncompress_CM6", "read"} /\ pc = "idle"

\* the line source ended before the values asked for were recovered
Truncated == Decoded /\ want > 0 /\ unp.eof /\ Len(unp.vals) < want

\* the unpacker stopped at the trailer with a count other than the one asked for
CutShort == Decoded /\ want > 0 /\ ~unp.eof /\ unp.sawDat /\ Len(unp.vals) # want

\* C3 as stated: the end of input before N values raises an error of its own, not
\* the one raised for a count that differs from N.
C3_DistinctError == Truncated => err \notin {"none", MismatchError}

\* C3 amended: the end of input before N values raises GSEUtiError, the very error
\* raised for any other count that differs from N, and a decoding that ends without
\* error returns exactly the N samples asked for.
C3_SameErrorNeverShort ==
    /\ Truncated => err = MismatchError /\ data = <<>>
    /\ CutShort => err = MismatchError /\ data = <<>>
    /\ (Decoded /\ err = "none") => Len(data) = want

\* C3 witness: a decoding asked for more values than the input held before its end
C3_Witness == Truncated /\ err = MismatchError /\ unp.vals # <<>>

\* the header written at the start of the file has been read back
RoundTripped == op = "readHeader" /\ pc = "idle" /\ pos0 = 0 /\ file # <<>>

\* the fields of hd fit their columns at the precision the format prints
FitsColumns(hd) ==
    /\ Len(hd.station) <= 5 /\ Len(hd.channel) <= 3
    /\ Len(hd.gse2.auxid) <= 4 /\ Len(hd.gse2.datatype) <= 3 /\ Len(hd.gse2.instype) <= 6
    /\ hd.npts \in 0..99999999
    /\ hd.sampling_rate.e >= -6 /\ Abs(hd.calib.m) < 1000
    /\ hd.gse2.calper.e >= -3 /\ hd.gse2.hang.e >= -1 /\ hd.gse2.vang.e >= -1

\* C4 as stated: a valid header, its start time to the microsecond, is read back
\* field for field.
C4_ExactRoundTrip ==
    (RoundTripped /\ FitsColumns(headdict) /\ headdict.channel = Upper(headdict.channel))
        => (err = "none" /\ header = headdict)

\* C4 amended: a header that fits its columns and starts on a whole millisecond is
\* read back field for field, the channel in upper case; the part of a start time
\* below the millisecond is not read back.
C4_MillisecondRoundTrip ==
    (RoundTripped /\ FitsColumns(headdict)) =>
        IF headdict.starttime.microsecond % 1000 = 0
        THEN err = "none" /\ header = [headdict EXCEPT !.channel = Upper(headdict.channel)]
        ELSE err # "none" \/ header.starttime # headdict.starttime

\* C4 witness: a start time of 255 milliseconds came back as 255000 microseconds
C4_Witness ==
    /\ RoundTripped /\ FitsColumns(headdict) /\ err = "none"
    /\ headdict.starttime.microsecond = 255000 /\ header.starttime.microsecond = 255000
    /\ header.channel # headdict.channel

\* a call of write ended without an error
Written == w[1].pc = "done" /\ w[1].err = "none"

\* the lines write put between the DAT2 line and the CHK2 line, newlines included
DataBlock == SubSeq(w[1].out, 3, Len(w[1].out) - 1)

\* C5 as stated: the data block has ceil(c/80) lines for c emitted characters, each
\* of them 80 characters long before its newline.
C5_FullLines ==
    Written =>
        /\ Len(DataBlock) = (w[1].emitted + LineWidth - 1) \div LineWidth
        /\ \A k \in 1..Len(DataBlock) : Len(DataBlock[k]) = LineWidth + 1

\* C5 amended: with s the emitted characters that fit the buffer of 4 characters a
\* sample, the data block has s div 80 + 1 lines, but no more than the buffer holds;
\* every line but the last is 80 characters long and the last holds the remaining
\* characters, unpadded.
C5_LastLineUnpadded ==
    Written =>
        \A cap \in {BytesPerSample * Len(w[1].orig)} :
        \A s \in {Min(w[1].emitted, cap)} :
        \A n \in {Min((s \div LineWidth) + 1, cap \div LineWidth)} :
        \A block \in {DataBlock} :
            /\ Len(block) = n
            /\ \A k \in 1..n :
                  /\ Len(block[k]) = (IF k < n THEN LineWidth ELSE s - LineWidth * (n - 1)) + 1
                  /\ block[k][Len(block[k])] = NL
                  /\ \A i \in 1..(Len(block[k]) - 1) : block[k][i] \in Range(SixBitChars)

\* C5 witness: 80 characters were emitted and written as a full line and an empty one
C5_Witness ==
    Written /\ w[1].emitted = LineWidth /\ Len(DataBlock) = 2 /\ DataBlock[2] = <<NL>>

\* C6 as stated: write of an empty buffer ends without error and without calling
\* the difference transform or the packer.
C6_EmptyWrites ==
    (w[1].pc = "done" /\ w[1].orig = <<>>)
        => (w[1].err = "none" /\ w[1].calls \cap {"diff_2nd", "compress_6b_buffer"} = {})

C8_OwnCursor ==
    \A p \in Procs :
        w[p].pc \in {"compress", "done"} =>
            \A chars \in {PackAll(diff_2nd(w[p].orig))} :
            \A i \in 1..Len(w[p].carr) :
                w[p].carr[i] = IF i <= w[p].emitted THEN chars[i] ELSE NUL

\* C9 as stated: no step lowers the position of the stream.
C9_NeverLower == [][pos' >= pos]_vars

\* C9 amended: the only step that lowers the position is the seek of isGse2, which
\* puts the stream back where isGse2 found it; so no operation ends with the stream
\* before the position it started from.
C9_OnlySeekBack ==
    [][/\ pos' >= pos \/ (pc = "sniffed" /\ pos' = pos0)
       /\ pc' = "idle" => pos' >= pos0']_vars

\* C9 witness: isGse2 read four bytes past the start of the file and went back
C9_Witness == op = "isGse2" /\ pc = "idle" /\ pos0 > 0 /\ pos = pos0 /\ Len(widi) = 4

\* C10 as stated: read83 copies at most 83 bytes and no more bytes than the clipped
\* copy of the line holds.
C10_BoundedCopy == copied <= CBufSize /\ copied <= sbsize

====
